---- MODULE Spec2Model ----
(***************************************************************************)
(* A model of UPClient (src/union_pacific_api/__init__.py): the credential *)
(* resolution, the token cache kept in the .token file and in the process  *)
(* environment, the token property with its OAuth exchange, and the        *)
(* resource calls built on it.                                             *)
(*                                                                         *)
(* Time is counted in whole hours.  Python's None is the value None below; *)
(* a datetime is a record Dt(h); strings are TLA+ strings.                 *)
(***************************************************************************)
EXTENDS Integers, Sequences, FiniteSets, TLC

\* ------------------------------------------------------------------ bounds
MaxTime == 3            \* the clock runs from hour 0 to hour MaxTime
MaxSegments == 4        \* segments in one mileage entry of a Route
MaxKwargs == 3          \* keywords in one endpoint_builder call
MaxExchanges == 3       \* POSTs followed within one call; the code goes on
                        \* until the interpreter's recursion limit

\* --------------------------------------------------------------- constants
TokenLifetimeHours == 2 \* timedelta(hours=2) in the token getter
HttpOk == 200
HttpPartial == 206

\* ------------------------------------------------------------------ values
None == "<None>"
Truthy(v) == v # None /\ v # ""

NoDt == [t |-> "None", h |-> 0]
StrDt == [t |-> "str", h |-> 0]          \* the empty string the setter stores
Dt(h) == [t |-> "datetime", h |-> h]
IsDatetime(d) == d.t = "datetime"

Hours == 0..23
Hour2(h) == IF h < 10 THEN "0" \o ToString(h) ELSE ToString(h)
\* str(datetime): "YYYY-MM-DD HH:MM:SS"
DatetimeStrs == [h \in Hours |-> "2024-01-01 " \o Hour2(h) \o ":00:00"]
DatetimeStr(h) == DatetimeStrs[h]
\* str(_iso_date) in the setter: _iso_date is a datetime or ""
IsoDateStr(d) == IF IsDatetime(d) THEN DatetimeStr(d.h) ELSE ""
\* datetime.fromisoformat: a datetime, or ValueError
IsIsoFormat(s) == \E h \in Hours : s = DatetimeStrs[h]
FromIsoFormat(s) == Dt(CHOOSE h \in Hours : s = DatetimeStrs[h])

Tokens == {"T1", "T2"}
Paths == {"P1", "P2"}
Cwd == "P1"
EnvKeys == {"UP_ACCESSID", "UP_SECRET_KEY", "UP_TOKEN", "UP_TOKEN_TIMESTAMP"}

\* ------------------------------------------------------------ dotenv files
\* A file is [exists, kv]: kv maps each key to the raw text after "=", or to
\* NoKey when the file has no line for the key.
NoKey == "<no line>"
EmptyKv == [k \in EnvKeys |-> NoKey]
NoFile == [exists |-> FALSE, kv |-> EmptyKv]
\* the strings the program writes through set_key
Writable == Tokens \cup {""} \cup {DatetimeStr(h) : h \in Hours}
\* set_key (quote_mode "always") writes KEY='value'
Quote(v) == "'" \o v \o "'"
\* the quoted texts a file may hold, each with the value inside its quotes
Quoted == {<<Quote(v), v>> : v \in Writable \cup {"garbage"}}
\* the value dotenv parses from the raw text: quotes removed
DotenvValue(raw) ==
    IF \E q \in Quoted : q[1] = raw
    THEN (CHOOSE q \in Quoted : q[1] = raw)[2]
    ELSE raw
\* dotenv.set_key(path, key, value) on an existing file
SetKey(file, key, value) ==
    [exists |-> TRUE, kv |-> [file.kv EXCEPT ![key] = Quote(value)]]
\* dotenv.load_dotenv(path): override=False, so a key the environment already
\* holds keeps its value; a missing file changes nothing
LoadDotenv(env, file) ==
    IF ~file.exists THEN env
    ELSE [k \in EnvKeys |->
            IF env[k] = None /\ file.kv[k] # NoKey
            THEN DotenvValue(file.kv[k]) ELSE env[k]]

\* the file __init__ writes when no .token exists
NewTokenFile ==
    [exists |-> TRUE,
     kv |-> [EmptyKv EXCEPT !["UP_TOKEN"] = "", !["UP_TOKEN_TIMESTAMP"] = ""]]
\* a .token file as the setter leaves it after saving token v at hour h
SavedFile(v, h) ==
    SetKey(SetKey(NewTokenFile, "UP_TOKEN_TIMESTAMP", DatetimeStr(h)), "UP_TOKEN", v)
\* a .env file holding credentials
CredFile(u, p) ==
    [exists |-> TRUE,
     kv |-> [EmptyKv EXCEPT !["UP_ACCESSID"] = u, !["UP_SECRET_KEY"] = p]]

\* ================================================================ JSON values
\* A JSON value, and equally the Python value resp.json() gives, is tagged with
\* its kind; a dataclass instance carries its class and its fields.
JNull == [cls |-> "", tag |-> "null", val |-> ""]
JStr(s) == [cls |-> "", tag |-> "str", val |-> s]
JInt(n) == [cls |-> "", tag |-> "int", val |-> n]
JFloat(n) == [cls |-> "", tag |-> "float", val |-> n]
JBool(b) == [cls |-> "", tag |-> "bool", val |-> b]
JDict(f) == [cls |-> "", tag |-> "dict", val |-> f]
JList(q) == [cls |-> "", tag |-> "list", val |-> q]
Instance(c, f) == [cls |-> c, tag |-> "dataclass", val |-> f]

\* ================================================================ the state
VARIABLES
    environ,    \* os.environ restricted to EnvKeys; None = not set
    tokfile,    \* the .token file of each directory
    envfile,    \* the .env file of each directory
    client,     \* the UPClient instance in use, or NoClient
    now,        \* datetime.now(), in hours
    call,       \* the call in progress or last completed
    result      \* what the last completed call returned or raised

vars == <<environ, tokfile, envfile, client, now, call, result>>

NoClient ==
    [alive |-> FALSE, uid |-> None, pw |-> None, env_dir |-> Cwd,
     tk |-> None, tk_datetime |-> NoDt, force_new_token |-> FALSE,
     use_dataclasses |-> TRUE, fresh |-> FALSE]

\* what a call that raises hands back: nothing
NoData == [cls |-> "", tag |-> "nothing", val |-> ""]
ReturnedData(d) ==
    [kind |-> "return", value |-> None, exc |-> "", status |-> 0, data |-> d]
Returned(v) == [kind |-> "return", value |-> v, exc |-> "", status |-> 0, data |-> NoData]
Raised(e, s) == [kind |-> "raise", value |-> None, exc |-> e, status |-> s, data |-> NoData]
NoResult == [kind |-> "none", value |-> None, exc |-> "", status |-> 0, data |-> NoData]

IdleCall ==
    [op |-> "none", pc |-> "idle", posts |-> 0, gets |-> 0, writes |-> 0,
     pre_tk |-> None, pre_age |-> -1, fresh |-> FALSE,
     userid |-> None, password |-> None, dir |-> Cwd, force |-> FALSE,
     credread |-> FALSE, answers |-> <<>>, url |-> "", bearer |-> None,
     status |-> 0, body |-> NoData,
     resource |-> "", endpoint |-> "", kwargs |-> <<>>, param |-> <<>>,
     dc |-> "", attr |-> "", attr_exc |-> "", before |-> NoData]

\* ------------------------------------------------- construction (__init__)
\* an inverted test: the explicit pair is set aside exactly when it is complete
IgnoresExplicitCredentials(userid, password) == ~(Truthy(userid) /\ Truthy(password))

\* "if userid and password": the explicit pair is used only when both are truthy
UsesExplicitCredentials(userid, password) == Truthy(userid) /\ Truthy(password)

\* _load_env_credentials: load_dotenv(<env_dir>/.env), then the two getenv reads.
\* [environ, uid, pw, failed]
LoadEnvCredentials(env, file) ==
    LET e == LoadDotenv(env, file)
    IN [environ |-> e, uid |-> e["UP_ACCESSID"], pw |-> e["UP_SECRET_KEY"],
        failed |-> ~Truthy(e["UP_ACCESSID"]) \/ ~Truthy(e["UP_SECRET_KEY"])]

\* a load that forgets the force_new_token flag
LoadEnvTokenIgnoringForce(env, file, force) ==
    LET e == LoadDotenv(env, file)
        ts == e["UP_TOKEN_TIMESTAMP"]
    IN IF Truthy(ts)
       THEN IF IsIsoFormat(ts)
            THEN [environ |-> e, tk |-> e["UP_TOKEN"],
                  tk_datetime |-> FromIsoFormat(ts), exc |-> ""]
            ELSE [environ |-> e, tk |-> None, tk_datetime |-> NoDt,
                  exc |-> "ValueError"]
       ELSE [environ |-> e, tk |-> None, tk_datetime |-> NoDt, exc |-> ""]

\* _load_env_token: load_dotenv(<env_dir>/.token), then the timestamp decides.
\* [environ, tk, tk_datetime, exc]
LoadEnvToken(env, file, force) ==
    LET e == LoadDotenv(env, file)
        ts == e["UP_TOKEN_TIMESTAMP"]
    IN IF Truthy(ts) /\ ~force
       THEN IF IsIsoFormat(ts)
            THEN [environ |-> e, tk |-> e["UP_TOKEN"],
                  tk_datetime |-> FromIsoFormat(ts), exc |-> ""]
            ELSE [environ |-> e, tk |-> None, tk_datetime |-> NoDt,
                  exc |-> "ValueError"]
       ELSE [environ |-> e, tk |-> None, tk_datetime |-> NoDt, exc |-> ""]

NewClient(uid, pw, dir, force, udc, tk, dt) ==
    [alive |-> TRUE, uid |-> uid, pw |-> pw, env_dir |-> dir, tk |-> tk,
     tk_datetime |-> dt, force_new_token |-> force, use_dataclasses |-> udc,
     fresh |-> TRUE]

ConstructCall(userid, password, dir, force, credread) ==
    [IdleCall EXCEPT !.op = "construct", !.userid = userid, !.password = password,
                     !.dir = dir, !.force = force, !.credread = credread]

\* UPClient(userid, password, env_dir, force_new_token, use_dataclasses)
Construct(userid, password, env_dir, force, udc) ==
    /\ call.pc = "idle"
    /\ LET dir == IF Truthy(env_dir) THEN env_dir ELSE Cwd
           explicit == UsesExplicitCredentials(userid, password)
           cred == IF explicit
                   THEN [environ |-> environ, uid |-> userid, pw |-> password,
                         failed |-> FALSE]
                   ELSE LoadEnvCredentials(environ, envfile[dir])
       IN /\ call' = ConstructCall(userid, password, dir, force, ~explicit)
          /\ UNCHANGED <<envfile, now>>
          /\ IF cred.failed
             THEN /\ client' = NoClient
                  /\ environ' = cred.environ
                  /\ result' = Raised("Exception: no credentials", 0)
                  /\ UNCHANGED tokfile
             ELSE IF ~tokfile[dir].exists
             THEN /\ tokfile' = [tokfile EXCEPT ![dir] = NewTokenFile]
                  /\ environ' = cred.environ
                  /\ client' = NewClient(cred.uid, cred.pw, dir, force, udc, None, NoDt)
                  /\ result' = Returned(None)
             ELSE LET ld == LoadEnvToken(cred.environ, tokfile[dir], force)
                  IN /\ environ' = ld.environ
                     /\ UNCHANGED tokfile
                     /\ IF ld.exc # ""
                        THEN /\ client' = NoClient
                             /\ result' = Raised(ld.exc, 0)
                        ELSE /\ client' = NewClient(cred.uid, cred.pw, dir, force,
                                                    udc, ld.tk, ld.tk_datetime)
                             /\ result' = Returned(None)

\* ------------------------------------------------------- the token property
\* a getter that already treats the last hour of the lifetime as stale
TokenIsStaleInclusive(dt, t) == t >= dt.h + TokenLifetimeHours

\* the getter's test "datetime.now() > self._tk_datetime + timedelta(hours=2)"
TokenIsStale(dt, t) == t > dt.h + TokenLifetimeHours

\* a getter that hands back whatever is held, without any exchange
ReturnsHeldToken(c, t) == "return"

\* What entering the getter does: "return" the held token, start an
\* "exchange", or fail adding a timedelta to something that is no datetime.
EnterGetter(c, t) ==
    IF Truthy(c.tk)
    THEN IF ~IsDatetime(c.tk_datetime) THEN "TypeError"
         ELSE IF TokenIsStale(c.tk_datetime, t) THEN "exchange" ELSE "return"
    ELSE "exchange"

\* the setter's guard "if self._tk != tk"
SetterWrites(held, tk) == held # tk

\* token.setter: [client, file, writes, exc].  The timestamp is written and
\* assigned first; set_key raises AttributeError on a value that is None.
TokenSetter(c, file, tk, t) ==
    IF SetterWrites(c.tk, tk)
    THEN LET iso == IF Truthy(tk) THEN Dt(t) ELSE StrDt
             f1 == SetKey(file, "UP_TOKEN_TIMESTAMP", IsoDateStr(iso))
             c1 == [c EXCEPT !.tk_datetime = iso]
         IN IF tk = None
            THEN [client |-> c1, file |-> f1, writes |-> 1, exc |-> "AttributeError"]
            ELSE [client |-> [c1 EXCEPT !.tk = tk],
                  file |-> SetKey(f1, "UP_TOKEN", tk), writes |-> 2, exc |-> ""]
    ELSE [client |-> c, file |-> file, writes |-> 0, exc |-> ""]

\* the hours since the held token was issued, -1 when no datetime is held
Age(c, t) == IF IsDatetime(c.tk_datetime) THEN t - c.tk_datetime.h ELSE -1

StartCall(op) ==
    [IdleCall EXCEPT !.op = op, !.pre_tk = client.tk,
                     !.pre_age = Age(client, now), !.fresh = client.fresh,
                     !.dir = client.env_dir]

Used(c) == [c EXCEPT !.fresh = FALSE]

\* client.token = tk
TokenSave(tk) ==
    /\ call.pc = "idle"
    /\ client.alive
    /\ LET s == TokenSetter(Used(client), tokfile[client.env_dir], tk, now)
       IN /\ client' = s.client
          /\ tokfile' = [tokfile EXCEPT ![client.env_dir] = s.file]
          /\ call' = [StartCall("save") EXCEPT !.writes = s.writes]
          /\ result' = IF s.exc # "" THEN Raised(s.exc, 0) ELSE Returned(None)
    /\ UNCHANGED <<environ, envfile, now>>

\* client.token, read: returns at once, or sends the exchange POST
TokenRead ==
    /\ call.pc = "idle"
    /\ client.alive
    /\ LET g == EnterGetter(client, now)
       IN /\ client' = Used(client)
          /\ IF g = "exchange"
             THEN /\ call' = [StartCall("token") EXCEPT !.pc = "post", !.posts = 1]
                  /\ result' = NoResult
             ELSE /\ call' = StartCall("token")
                  /\ result' = IF g = "return" THEN Returned(client.tk)
                                ELSE Raised(g, 0)
    /\ UNCHANGED <<environ, tokfile, envfile, now>>

\* client.get_new_token(): _request_token() whatever the held token is
GetNewToken ==
    /\ call.pc = "idle"
    /\ client.alive
    /\ client' = Used(client)
    /\ call' = [StartCall("get_new_token") EXCEPT !.pc = "post", !.posts = 1]
    /\ result' = NoResult
    /\ UNCHANGED <<environ, tokfile, envfile, now>>

\* an hour passes: between two calls, or while a request waits for its answer
Tick ==
    /\ now < MaxTime
    /\ now' = now + 1
    /\ UNCHANGED <<environ, tokfile, envfile, client, call, result>>

\* ---------------------------------------------------------- _request_token
\* what the OAuth endpoint may answer
ExchangeStatuses == {HttpOk, 401}
ExchangeBodies ==
    {[has |-> FALSE, access_token |-> ""]}
    \cup {[has |-> TRUE, access_token |-> v] : v \in Tokens \cup {""}}

\* "if resp.status_code != 200: raise"
ExchangeFailed(status) == status # HttpOk

\* the methods that GET a resource
ResourceOps ==
    {"get_routes", "get_route_by_id", "get_locations", "get_location_by_id",
     "get_shipments", "get_shipment_by_id", "get_case_by_id", "get_cases",
     "get_waybill_by_id", "get_waybills", "get_equipment_by_id"}

\* a client whose failed exchange also dropped the token it held
ExchangeRaisedTokenDropped(c) == [c EXCEPT !.tk = None, !.tk_datetime = NoDt]

\* The client after _request_token raised: the raise comes before
\* "self.token = r_json['access_token']", and the getter's
\* "self._tk = self._request_token()" assigns nothing.
ExchangeRaised(c) == c

\* The POST is answered.  On 200 the setter stores r_json['access_token'] and
\* "return self.token" enters the getter again: it returns the stored token, or
\* finds it unusable and sends another POST, one more level down the stack.
ExchangeResponse(status, body) ==
    /\ call.pc = "post"
    /\ UNCHANGED <<environ, envfile, now>>
    /\ IF ExchangeFailed(status)
       THEN /\ result' = Raised("Exception: Token request failed", status)
            /\ call' = [call EXCEPT !.pc = "idle"]
            /\ client' = ExchangeRaised(client)
            /\ UNCHANGED tokfile
       ELSE IF ~body.has
       THEN /\ result' = Raised("KeyError", 0)
            /\ call' = [call EXCEPT !.pc = "idle"]
            /\ client' = ExchangeRaised(client)
            /\ UNCHANGED tokfile
       ELSE LET s == TokenSetter(client, tokfile[client.env_dir], body.access_token, now)
                g == EnterGetter(s.client, now)
                c1 == [call EXCEPT !.writes = @ + s.writes,
                                   !.answers = Append(@, body.access_token)]
            IN /\ client' = s.client
               /\ tokfile' = [tokfile EXCEPT ![client.env_dir] = s.file]
               /\ IF g = "exchange"
                  THEN /\ call.posts < MaxExchanges
                       /\ call' = [c1 EXCEPT !.posts = @ + 1]
                       /\ result' = NoResult
                  ELSE IF g # "return"
                  THEN /\ call' = [c1 EXCEPT !.pc = "idle"]
                       /\ result' = Raised(g, 0)
                  ELSE IF call.op \in ResourceOps
                  THEN /\ call' = [c1 EXCEPT !.pc = "get", !.gets = 1,
                                             !.bearer = s.client.tk]
                       /\ result' = NoResult
                  ELSE /\ call' = [c1 EXCEPT !.pc = "idle"]
                       /\ result' = IF call.op = "token"
                                     THEN Returned(s.client.tk)
                                     ELSE Returned(None)

\* ------------------------------------------------------------ token lifecycle
\* The stores a process may find: none, one a client saved, one whose
\* timestamp is no ISO instant, one with a timestamp and no token, one with a
\* token and no timestamp line.
InitStoresCwd ==
    {NoFile,
     SavedFile("T1", 0),
     SetKey(SetKey(NewTokenFile, "UP_TOKEN_TIMESTAMP", "garbage"), "UP_TOKEN", "T1"),
     SetKey(NewTokenFile, "UP_TOKEN_TIMESTAMP", DatetimeStr(0)),
     [exists |-> TRUE, kv |-> [EmptyKv EXCEPT !["UP_TOKEN"] = Quote("T1")]]}
SavedValues == {None, "", "T1"}

Init ==
    /\ environ = [k \in EnvKeys |-> None]
    /\ tokfile \in [Paths -> InitStoresCwd \cup {NoFile}]
    /\ tokfile["P2"] = NoFile
    /\ envfile = [p \in Paths |-> NoFile]
    /\ client = NoClient
    /\ now = 0
    /\ call = IdleCall
    /\ result = NoResult

Next ==
    \/ \E d \in {None, Cwd}, f \in BOOLEAN : Construct("u1", "p1", d, f, TRUE)
    \/ TokenRead
    \/ GetNewToken
    \/ \E v \in SavedValues : TokenSave(v)
    \/ \E st \in ExchangeStatuses, b \in ExchangeBodies : ExchangeResponse(st, b)
    \/ Tick

Spec == Init /\ [][Next]_vars

\* ------------------------------------------------------ credential resolution
\* Processes that differ in what the credential source holds: the .env file
\* of each directory and the UP_ACCESSID / UP_SECRET_KEY environment entries.
UserIds == {None, "", "u1"}
Passwords == {None, "p1"}
EnvDirs == {None} \cup Paths
InitEnvFiles == {NoFile, CredFile("u9", "p9"), CredFile("u7", "")}
InitEnvirons ==
    {[k \in EnvKeys |-> None],
     [[k \in EnvKeys |-> None] EXCEPT !["UP_ACCESSID"] = "u8", !["UP_SECRET_KEY"] = "p8"],
     [[k \in EnvKeys |-> None] EXCEPT !["UP_ACCESSID"] = "u8"]}

InitCred ==
    /\ environ \in InitEnvirons
    /\ tokfile \in [Paths -> {NoFile, SavedFile("T1", 0)}]
    /\ tokfile["P2"] = NoFile
    /\ envfile \in [Paths -> InitEnvFiles]
    /\ envfile["P2"] \in {NoFile, CredFile("u9", "p9")}
    /\ client = NoClient
    /\ now = 0
    /\ call = IdleCall
    /\ result = NoResult

NextCred ==
    \/ \E u \in UserIds, p \in Passwords, d \in EnvDirs, x \in BOOLEAN :
          Construct(u, p, d, FALSE, x)
    \/ Tick

SpecCred == InitCred /\ [][NextCred]_vars


\* ============================================================== the record mapper
\* the dataclasses of datatypes.py: F(name, kind, of, optional, has default None, init)
F(n, k, of, opt, dflt, init) ==
    [n |-> n, k |-> k, of |-> of, opt |-> opt, dflt |-> dflt, init |-> init]
Schema ==
    [EquipmentLength |->
        <<F("length", "float", "", TRUE, TRUE, TRUE)>>,
     EquipmentVolume |->
        <<F("cubic_capacity", "float", "", TRUE, TRUE, TRUE)>>,
     EquipmentDimensions |->
        <<F("exterior", "dc", "EquipmentLength", TRUE, TRUE, TRUE),
          F("volume", "dc", "EquipmentVolume", TRUE, TRUE, TRUE),
          F("tare", "float", "", TRUE, TRUE, TRUE)>>,
     EquipmentWeight |->
        <<F("gross_maximum", "float", "", TRUE, TRUE, TRUE),
          F("net_maximum", "float", "", TRUE, TRUE, TRUE),
          F("tare", "float", "", TRUE, TRUE, TRUE)>>,
     Equipment |->
        <<F("id", "str", "", FALSE, FALSE, TRUE),
          F("aar_type", "str", "", TRUE, TRUE, TRUE),
          F("up_type", "str", "", TRUE, TRUE, TRUE),
          F("weight", "dc", "EquipmentWeight", TRUE, TRUE, TRUE),
          F("owner_type_code", "str", "", TRUE, TRUE, TRUE),
          F("lessee_initial", "str", "", TRUE, TRUE, TRUE),
          F("dimensions", "dc", "EquipmentDimensions", TRUE, TRUE, TRUE)>>,
     Commodity |->
        <<F("stcc", "str", "", FALSE, FALSE, TRUE),
          F("description", "str", "", TRUE, TRUE, TRUE)>>,
     Waybill |->
        <<F("id", "str", "", FALSE, FALSE, TRUE),
          F("primary_reference_id", "str", "", TRUE, TRUE, TRUE),
          F("primary_reference_id_type_code", "str", "", TRUE, TRUE, TRUE),
          F("waybill_number", "str", "", TRUE, TRUE, TRUE),
          F("waybill_date", "str", "", TRUE, TRUE, TRUE)>>,
     Assessorial |->
        <<F("storage_first_chargeable_day", "str", "", FALSE, FALSE, TRUE)>>,
     BOL |->
        <<F("equipment", "dc", "Equipment", FALSE, FALSE, TRUE),
          F("waybill", "dc", "Waybill", TRUE, TRUE, TRUE),
          F("commodities", "list", "Commodity", TRUE, TRUE, TRUE),
          F("load_empty_code", "str", "", TRUE, TRUE, TRUE),
          F("associated_equipment", "list", "str", TRUE, TRUE, TRUE),
          F("pickup_number", "str", "", TRUE, TRUE, TRUE),
          F("yard_block", "str", "", TRUE, TRUE, TRUE),
          F("assessorial_information", "dc", "Assessorial", TRUE, TRUE, TRUE)>>,
     Location |->
        <<F("id", "str", "", FALSE, FALSE, TRUE),
          F("city", "str", "", FALSE, FALSE, TRUE),
          F("state_abbreviation", "str", "", FALSE, FALSE, TRUE),
          F("country_abbreviation", "str", "", TRUE, TRUE, TRUE),
          F("type_code", "str", "", TRUE, TRUE, TRUE),
          F("splc", "str", "", TRUE, TRUE, TRUE),
          F("postal_code", "str", "", TRUE, TRUE, TRUE),
          F("latitude", "float", "", TRUE, TRUE, TRUE),
          F("longitude", "float", "", TRUE, TRUE, TRUE)>>,
     CarrierLocation |->
        <<F("location", "dc", "Location", FALSE, FALSE, TRUE),
          F("carrier", "str", "", TRUE, TRUE, TRUE),
          F("junction_abbreviation", "str", "", TRUE, TRUE, TRUE)>>,
     Segment |->
        <<F("beginning", "dc", "CarrierLocation", FALSE, FALSE, TRUE),
          F("end", "dc", "CarrierLocation", FALSE, FALSE, TRUE),
          F("mileage", "float", "", FALSE, FALSE, TRUE),
          F("carrier", "str", "", TRUE, TRUE, TRUE)>>,
     RouteMileage |->
        <<F("mileage", "float", "", FALSE, FALSE, TRUE),
          F("route_segments", "list", "Segment", TRUE, TRUE, TRUE),
          F("type_code", "str", "", TRUE, TRUE, TRUE)>>,
     Route |->
        <<F("origin", "dc", "CarrierLocation", FALSE, FALSE, TRUE),
          F("destination", "dc", "CarrierLocation", FALSE, FALSE, TRUE),
          F("route_mileages", "list", "RouteMileage", TRUE, TRUE, TRUE),
          F("id", "str", "", TRUE, TRUE, TRUE),
          F("junctions", "list", "CarrierLocation", TRUE, TRUE, TRUE),
          F("last_accomplished_event_stop", "dc", "CarrierLocation", TRUE, TRUE, TRUE),
          F("route_str", "list", "str", FALSE, FALSE, FALSE)>>,
     CarrierTrain |->
        <<F("section", "str", "", TRUE, TRUE, TRUE),
          F("symbol", "str", "", TRUE, TRUE, TRUE),
          F("start_date", "str", "", TRUE, TRUE, TRUE)>>,
     Event |->
        <<F("type_code", "str", "", FALSE, FALSE, TRUE),
          F("offline", "bool", "", FALSE, FALSE, TRUE),
          F("status_code", "str", "", FALSE, FALSE, TRUE),
          F("event_code", "str", "", TRUE, TRUE, TRUE),
          F("date_time", "str", "", TRUE, TRUE, TRUE),
          F("location", "dc", "Location", TRUE, TRUE, TRUE),
          F("carrier_abbreviation", "str", "", TRUE, TRUE, TRUE),
          F("carrier_train", "dc", "CarrierTrain", TRUE, TRUE, TRUE),
          F("equipment", "dc", "Equipment", TRUE, TRUE, TRUE)>>,
     Shipment |->
        <<F("id", "str", "", FALSE, FALSE, TRUE),
          F("load", "dc", "BOL", TRUE, TRUE, TRUE),
          F("current_event", "dc", "Event", TRUE, TRUE, TRUE),
          F("phase_code", "str", "", TRUE, TRUE, TRUE),
          F("online", "str", "", TRUE, TRUE, TRUE),
          F("route", "dc", "Route", TRUE, TRUE, TRUE),
          F("hold_code", "str", "", TRUE, TRUE, TRUE),
          F("started_dwell", "str", "", TRUE, TRUE, TRUE),
          F("operational_move_events", "list", "Event", TRUE, TRUE, TRUE)>>,
     User |->
        <<F("user_id", "str", "", FALSE, FALSE, TRUE)>>,
     CaseComment |->
        <<F("body", "str", "", FALSE, FALSE, TRUE),
          F("created_by", "dc", "User", FALSE, FALSE, TRUE),
          F("created", "str", "", FALSE, FALSE, TRUE)>>,
     Case |->
        <<F("id", "str", "", FALSE, FALSE, TRUE),
          F("description", "str", "", FALSE, FALSE, TRUE),
          F("subject", "str", "", FALSE, FALSE, TRUE),
          F("reason_code", "str", "", FALSE, FALSE, TRUE),
          F("status_code", "str", "", FALSE, FALSE, TRUE),
          F("created_by", "dc", "User", FALSE, FALSE, TRUE),
          F("created", "str", "", FALSE, FALSE, TRUE),
          F("last_modified_by", "dc", "User", TRUE, TRUE, TRUE),
          F("last_modified", "str", "", TRUE, TRUE, TRUE),
          F("tracked_comments", "list", "CaseComment", TRUE, TRUE, TRUE),
          F("lead_shipment", "dc", "Shipment", TRUE, TRUE, TRUE),
          F("lead_equipment", "dc", "Equipment", TRUE, TRUE, TRUE),
          F("waybill", "dc", "Waybill", TRUE, TRUE, TRUE)>>]
Frozen ==
    [EquipmentLength |-> TRUE,
     EquipmentVolume |-> TRUE,
     EquipmentDimensions |-> TRUE,
     EquipmentWeight |-> TRUE,
     Equipment |-> TRUE,
     Commodity |-> TRUE,
     Waybill |-> TRUE,
     Assessorial |-> TRUE,
     BOL |-> TRUE,
     Location |-> TRUE,
     CarrierLocation |-> TRUE,
     Segment |-> TRUE,
     RouteMileage |-> TRUE,
     Route |-> FALSE,
     CarrierTrain |-> TRUE,
     Event |-> TRUE,
     Shipment |-> TRUE,
     User |-> TRUE,
     CaseComment |-> TRUE,
     Case |-> TRUE]

\* fields(dc): the names of all fields, route_str included
FieldNames(c) == {Schema[c][i].n : i \in 1..Len(Schema[c])}
\* the type of the items of a List[...] field
ElemType(f) ==
    IF f.of = "str" THEN F("", "str", "", FALSE, FALSE, TRUE)
    ELSE F("", "dc", f.of, FALSE, FALSE, TRUE)

MapOk(v) == [ok |-> TRUE, err |-> "", value |-> v]
MapErr(e) == [ok |-> FALSE, err |-> e, value |-> JNull]
Skipped == [ok |-> TRUE, err |-> "skip", value |-> JNull]
\* the first failure of a sequence of results, or none
FirstErr(rs) ==
    IF \E i \in 1..Len(rs) : ~rs[i].ok
    THEN rs[CHOOSE i \in 1..Len(rs) : ~rs[i].ok /\ \A j \in 1..(i - 1) : rs[j].ok]
    ELSE MapOk(JNull)

\* "None" for None, as an f-string prints it
Fmt(x) == IF x.tag = "null" THEN "None" ELSE x.val

\* Route.__post_init__, the scan of one mileage entry's segments
\* a scan that names the junction at which the segment ends
EndJunction(seg) == seg.end.val.junction_abbreviation

\* "seg.beginning.junction_abbreviation"
Junction(seg) == seg.beginning.val.junction_abbreviation

RECURSIVE ScanSegments(_, _, _)
ScanSegments(segs, prev_rr, route_str) ==
    IF segs = <<>> THEN MapOk(route_str)
    ELSE LET seg == Head(segs).val
         IN IF prev_rr.tag = "null"
            THEN ScanSegments(Tail(segs), seg.carrier, seg.carrier)
            ELSE IF prev_rr # seg.carrier
            THEN IF prev_rr = JStr("UP")
                 THEN IF route_str.tag # "str" THEN MapErr("TypeError")
                      ELSE ScanSegments(Tail(segs), seg.carrier,
                              JStr(route_str.val \o "-"
                                   \o Fmt(Junction(seg))
                                   \o "-" \o Fmt(seg.carrier)))
                 ELSE ScanSegments(Tail(segs), seg.carrier, route_str)
            ELSE ScanSegments(Tail(segs), prev_rr, route_str)

\* the list of the values of a sequence of results, or their first failure
Collect(rs) ==
    IF ~FirstErr(rs).ok THEN FirstErr(rs)
    ELSE MapOk(JList([i \in 1..Len(rs) |-> rs[i].value]))

\* Route.__post_init__: one string per mileage entry; iterating a
\* route_segments that is None raises TypeError
RouteStr(route_mileages) ==
    IF route_mileages.tag # "list" \/ route_mileages.val = <<>> THEN MapOk(JList(<<>>))
    ELSE Collect([i \in 1..Len(route_mileages.val) |->
                    IF route_mileages.val[i].val.route_segments.tag # "list"
                    THEN MapErr("TypeError")
                    ELSE ScanSegments(route_mileages.val[i].val.route_segments.val,
                                      JNull, JStr(""))])

\* dc(**init_values): the instance, after __post_init__ where the class has one
NewInstance(c, init_values) ==
    IF c = "Route"
    THEN LET r == RouteStr(init_values.route_mileages)
         IN IF ~r.ok THEN r
            ELSE MapOk(Instance(c, [n \in DOMAIN init_values \cup {"route_str"} |->
                                      IF n = "route_str" THEN r.value ELSE init_values[n]]))
    ELSE MapOk(Instance(c, init_values))

\* dacite is_instance on a value that is no list: the value has the type
\* (an int passes as float)
ItemIsInstance(value, f) ==
    \/ f.k = "str" /\ value.tag = "str"
    \/ f.k = "float" /\ value.tag \in {"float", "int", "bool"}
    \/ f.k = "bool" /\ value.tag = "bool"
    \/ f.k = "dc" /\ value.tag = "dataclass" /\ value.cls = f.of

\* dacite is_instance: None passes for an Optional, a list when each item passes
IsInstance(value, f) ==
    \/ f.opt /\ value.tag = "null"
    \/ f.k # "list" /\ ItemIsInstance(value, f)
    \/ f.k = "list" /\ value.tag = "list"
          /\ \A i \in 1..Len(value.val) : ItemIsInstance(value.val[i], ElemType(f))

\* the type check of from_dict on a built value
Checked(f, b) ==
    IF ~b.ok THEN b
    ELSE IF ~IsInstance(b.value, f) THEN MapErr("WrongTypeError")
    ELSE b

\* a from_dict that gives every missing __init__ argument the value None
AbsentIsNone(f) == IF ~f.init THEN Skipped ELSE MapOk(JNull)

\* a field missing from the data takes its default None; a field without
\* default is skipped when it is not an __init__ argument, else it is a
\* MissingValueError
Absent(f) ==
    IF f.dflt \/ f.opt THEN MapOk(JNull)
    ELSE IF ~f.init THEN Skipped
    ELSE MapErr("MissingValueError")

\* from_dict once every field has its result rs[i]: the first failure, or
\* dc(**init_values) and then setattr of the fields that are no __init__
\* arguments, for a class that is not frozen
Assemble(c, rs) ==
    LET fs == Schema[c]
        at(n) == CHOOSE i \in 1..Len(fs) : fs[i].n = n
        init_names == {fs[i].n : i \in {j \in 1..Len(fs) : fs[j].init}}
        post_names == {fs[i].n : i \in {j \in 1..Len(fs) :
                          ~fs[j].init /\ rs[j].err # "skip" /\ ~Frozen[c]}}
    IN IF ~FirstErr(rs).ok THEN FirstErr(rs)
       ELSE LET inst == NewInstance(c, [n \in init_names |-> rs[at(n)].value])
            IN IF ~inst.ok THEN inst
               ELSE MapOk(Instance(c, [n \in DOMAIN inst.value.val |->
                                         IF n \in post_names THEN rs[at(n)].value
                                         ELSE inst.value.val[n]]))

\* a from_dict configured strict, for which a key that names no field is an error
UnexpectedDataStrict(c, data) == DOMAIN data \ FieldNames(c) # {}

\* from_dict is called without a Config: strict is off and a key of the data
\* that names no field is no UnexpectedDataError
UnexpectedData(c, data) == FALSE

\* dacite _build_value: None stays for an Optional, a list is built item by
\* item, a dict for a dataclass field goes through from_dict (every field in
\* declaration order), anything else is left to the type check
RECURSIVE BuildValue(_, _)
BuildValue(f, data) ==
    IF f.opt /\ data.tag = "null" THEN MapOk(data)
    ELSE IF f.k = "list" /\ data.tag = "list"
    THEN Collect([i \in 1..Len(data.val) |-> BuildValue(ElemType(f), data.val[i])])
    ELSE IF f.k = "dc" /\ data.tag = "dict"
    THEN IF UnexpectedData(f.of, data.val) THEN MapErr("UnexpectedDataError")
         ELSE Assemble(f.of,
            [i \in 1..Len(Schema[f.of]) |->
               IF Schema[f.of][i].n \in DOMAIN data.val
               THEN Checked(Schema[f.of][i],
                            BuildValue(Schema[f.of][i], data.val[Schema[f.of][i].n]))
               ELSE Absent(Schema[f.of][i])])
    ELSE MapOk(data)

\* dacite from_dict(dc, data)
FromDict(c, data) == BuildValue(F("", "dc", c, FALSE, FALSE, TRUE), JDict(data))

\* only the keys that name a field of the dataclass are handed to from_dict
KeepFields(data, c) == [n \in (DOMAIN data \cap FieldNames(c)) |-> data[n]]

\* UPClient._json_to_dataclass(resp_json, dc)
JsonToDataclass(resp_json, c) ==
    IF resp_json.tag = "dict" THEN FromDict(c, KeepFields(resp_json.val, c))
    ELSE IF resp_json.tag = "list"
    THEN Collect([i \in 1..Len(resp_json.val) |->
                    IF resp_json.val[i].tag # "dict" THEN MapErr("AttributeError")
                    ELSE FromDict(c, KeepFields(resp_json.val[i].val, c))])
    ELSE IF resp_json.tag = "str" /\ resp_json.val # "" THEN MapErr("AttributeError")
    ELSE IF resp_json.tag = "str" THEN MapOk(JList(<<>>))
    ELSE MapErr("TypeError")

\* ============================================================= resource calls
base_url == "https://customer.api.up.com"
route_endpoint == "/services/v2/routes"
locations_endpoint == "/services/v2/locations"
shipments_endpoint == "/services/v2/shipments"
cases_endpoint == "/services/v2/cases"
waybill_endpoint == "/services/v2/waybills"
equipment_endpoint == "/services/v2/equipment"

\* an argument that is a datetime
JDatetime(h) == [cls |-> "", tag |-> "datetime", val |-> h]

\* the strings passed as parameter values, each with its quote_plus form
ParamStrs == {<<"A1", "A1">>, <<"B 2", "B+2">>, <<"2024-01-01", "2024-01-01">>,
              <<"1234567", "1234567">>, <<"123456700", "123456700">>,
              <<"123456789", "123456789">>}
\* quote_plus works character by character and turns the comma into %2C:
\* the forms of the empty string and of two values joined by a comma
QuotePlusTable ==
    ParamStrs \cup {<<"", "">>}
      \cup {<<p[1] \o "," \o q[1], p[2] \o "%2C" \o q[2]>> : p, q \in ParamStrs}
QuotePlus(s) == (CHOOSE p \in QuotePlusTable : p[1] = s)[2]

\* ','.join(v)
RECURSIVE Join(_)
Join(v) ==
    IF v = <<>> THEN ""
    ELSE IF Len(v) = 1 THEN v[1].val
    ELSE v[1].val \o "," \o Join(Tail(v))

\* urlencode(param): key=quote_plus(value) pairs joined by "&"
RECURSIVE UrlEncode(_)
UrlEncode(param) ==
    IF param = <<>> THEN ""
    ELSE LET kv == param[1][1] \o "=" \o QuotePlus(param[1][2])
         IN IF Len(param) = 1 THEN kv ELSE kv \o "&" \o UrlEncode(Tail(param))

\* a loop that keeps the keywords that are None
KeepsNone(v) == TRUE

\* "if v is not None"
NotNone(v) == v.tag # "null"

\* the loop of endpoint_builder: param gets no entry for a keyword that is
\* None, and one entry, the items joined, for a keyword that is a list
RECURSIVE BuildParam(_)
BuildParam(kwargs) ==
    IF kwargs = <<>> THEN <<>>
    ELSE LET k == kwargs[1][1]
             v == kwargs[1][2]
         IN IF ~NotNone(v) THEN BuildParam(Tail(kwargs))
            ELSE IF v.tag = "list"
            THEN <<<<k, Join(v.val)>>>> \o BuildParam(Tail(kwargs))
            ELSE <<<<k, v.val>>>> \o BuildParam(Tail(kwargs))

\* endpoint_builder(endpoint, **kwargs)
EndpointBuilder(endpoint, kwargs) ==
    IF kwargs # <<>>
    THEN base_url \o endpoint \o "?" \o UrlEncode(BuildParam(kwargs))
    ELSE base_url \o endpoint

\* splc.ljust(9, '0')
LJust9 == {<<"1234567", "123456700">>, <<"123456789", "123456789">>}
\* "_splc = splc.ljust(9, '0') if splc else None"
PaddedSplc(splc) ==
    IF splc.tag = "str" /\ splc.val # ""
    THEN JStr((CHOOSE p \in LJust9 : p[1] = splc.val)[2])
    ELSE JNull

\* _date_param_to_str
DateParamToStr(dt) ==
    IF dt.tag = "datetime" THEN JStr("2024-01-01")
    ELSE IF dt.tag = "str" THEN dt
    ELSE JNull

\* the dataclass each method maps its response to
MethodDataclass ==
    [get_routes |-> "Route", get_route_by_id |-> "Route",
     get_locations |-> "Location", get_location_by_id |-> "Location",
     get_shipments |-> "Shipment", get_shipment_by_id |-> "Shipment",
     get_case_by_id |-> "Case", get_cases |-> "Case",
     get_waybill_by_id |-> "Waybill", get_waybills |-> "Waybill",
     get_equipment_by_id |-> "Equipment"]

\* a get_whatever_by_id method: endpoint_builder(f"{endpoint}/{id}")
ById(endpoint, id) ==
    [resource |-> endpoint, endpoint |-> endpoint \o "/" \o id.val, kwargs |-> <<>>]
\* a search method: endpoint_builder(endpoint, **kwargs)
Search(endpoint, kwargs) ==
    [resource |-> endpoint, endpoint |-> endpoint, kwargs |-> kwargs]

\* what each method hands to endpoint_builder: the endpoint attribute it
\* reads, the endpoint string and the keywords, from its arguments in the
\* order of its signature
MethodRequest(m, a) ==
    CASE m = "get_routes" ->
           Search(route_endpoint,
               <<<<"origin_id", a[1]>>, <<"destination_id", a[2]>>,
                 <<"origin_carrier", a[3]>>, <<"destination_carrier", a[4]>>,
                 <<"junction_abbreviation", a[5]>>, <<"junction_carrier", a[6]>>>>)
      [] m = "get_route_by_id" -> ById(route_endpoint, a[1])
      [] m = "get_locations" ->
           Search(locations_endpoint, <<<<"splc", PaddedSplc(a[1])>>>>)
      [] m = "get_location_by_id" -> ById(locations_endpoint, a[1])
      [] m = "get_shipments" ->
           Search(shipments_endpoint,
               <<<<"equipment_id", a[1]>>, <<"waybill_id", a[2]>>,
                 <<"origin_location_id", a[3]>>,
                 <<"destination_location_id", a[4]>>, <<"phase_codes", a[5]>>>>)
      [] m = "get_shipment_by_id" -> ById(shipments_endpoint, a[1])
      [] m = "get_case_by_id" -> ById(cases_endpoint, a[1])
      [] m = "get_cases" ->
           Search(cases_endpoint,
               <<<<"equipment_id", a[3]>>, <<"status_code", a[2]>>,
                 <<"created", DateParamToStr(a[1])>>>>)
      [] m = "get_waybill_by_id" -> ById(waybill_endpoint, a[1])
      [] m = "get_waybills" ->
           Search(cases_endpoint,
               <<<<"shipment_id", a[1]>>, <<"equipment_id", a[2]>>>>)
      [] m = "get_equipment_by_id" -> ById(equipment_endpoint, a[1])

\* the URL the method requests
MethodUrl(m, a) ==
    EndpointBuilder(MethodRequest(m, a).endpoint, MethodRequest(m, a).kwargs)

\* the arguments the calls are made with
MethodArgs(m) ==
    CASE m = "get_routes" -> {<<JStr("A1"), JStr("B 2"), JStr("A1"), JNull, JNull, JNull>>}
      [] m = "get_locations" -> {<<JNull>>, <<JStr("1234567")>>}
      [] m = "get_shipments" ->
           {<<JList(<<JStr("A1"), JStr("B 2")>>), JNull, JStr("A1"), JNull, JList(<<>>)>>}
      [] m = "get_cases" -> {<<JDatetime(0), JList(<<JStr("A1")>>), JNull>>}
      [] m = "get_waybills" -> {<<JList(<<JStr("A1")>>), JList(<<JStr("B 2")>>)>>}
      [] OTHER -> {<<JStr("A1")>>}

\* get_*: the URL is built, then _call_api reads self.token for the header:
\* the getter returns the held token, or the exchange POST goes out first
ResourceCall(m, a) ==
    /\ call.pc = "idle"
    /\ client.alive
    /\ LET g == EnterGetter(client, now)
           rq == MethodRequest(m, a)
           c0 == [StartCall(m) EXCEPT !.url = MethodUrl(m, a),
                                      !.resource = rq.resource,
                                      !.endpoint = rq.endpoint,
                                      !.kwargs = rq.kwargs,
                                      !.param = BuildParam(rq.kwargs),
                                      !.dc = MethodDataclass[m]]
       IN /\ client' = Used(client)
          /\ IF g = "exchange"
             THEN /\ call' = [c0 EXCEPT !.pc = "post", !.posts = 1]
                  /\ result' = NoResult
             ELSE IF g = "return"
             THEN /\ call' = [c0 EXCEPT !.pc = "get", !.gets = 1,
                                        !.bearer = client.tk]
                  /\ result' = NoResult
             ELSE /\ call' = c0
                  /\ result' = Raised(g, 0)
    /\ UNCHANGED <<environ, tokfile, envfile, now>>

\* what the resource endpoint may answer: a JSON body with a status the client
\* accepts, or an error page with another status
Loc1 ==
    JDict([id |-> JStr("LOC1"), city |-> JStr("Omaha"),
           state_abbreviation |-> JStr("NE"), country_abbreviation |-> JStr("US")])
Loc2 ==
    JDict([id |-> JStr("LOC2"), city |-> JStr("Ogden"),
           state_abbreviation |-> JStr("UT"), latitude |-> JInt(41),
           timezone |-> JStr("MST")])
LocNoCity == JDict([id |-> JStr("LOC3"), state_abbreviation |-> JStr("TX")])
NotJson == [cls |-> "", tag |-> "not json", val |-> "Not Found"]
GetBodies ==
    {JList(<<Loc1>>), JList(<<Loc1, Loc2>>), JList(<<>>), JList(<<Loc1, LocNoCity>>),
     Loc1, NotJson}
GetAnswers ==
    ({HttpOk, HttpPartial} \X GetBodies) \cup ({204, 404, 500} \X {NotJson})

\* an acceptance test that lets 404 through
CallApiOkOrNotFound(status) == status = HttpOk \/ status = HttpPartial \/ status = 404

\* _call_api: "if resp.status_code == 200 or resp.status_code == 206"
CallApiOk(status) == status = HttpOk \/ status = HttpPartial

UnexpectedResponse == "Exception: Received unexpected response from UP API"

\* a client that maps in neither mode
NeverUsesDataclasses(c) == FALSE

\* "if self.use_dataclasses"
UsesDataclasses(c) == c.use_dataclasses

\* The GET is answered: _call_api raises or returns resp.json(), and the method
\* maps it to its dataclass or returns it as it is.
GetResponse(status, body) ==
    /\ call.pc = "get"
    /\ call' = [call EXCEPT !.pc = "idle", !.status = status, !.body = body]
    /\ result' =
         IF ~CallApiOk(status) THEN Raised(UnexpectedResponse, status)
         ELSE IF body = NotJson THEN Raised("JSONDecodeError", 0)
         ELSE IF UsesDataclasses(client)
         THEN LET r == JsonToDataclass(body, MethodDataclass[call.op])
              IN IF r.ok THEN ReturnedData(r.value) ELSE Raised(r.err, 0)
         ELSE ReturnedData(body)
    /\ UNCHANGED <<environ, tokfile, envfile, client, now>>

\* A client just constructed with explicit credentials, in either mode, in a
\* working directory without a store: __init__ has created the empty .token
\* file and the client holds no token.
InitApi ==
    /\ environ = [k \in EnvKeys |-> None]
    /\ tokfile = [p \in Paths |-> IF p = Cwd THEN NewTokenFile ELSE NoFile]
    /\ envfile = [p \in Paths |-> NoFile]
    /\ \E udc \in BOOLEAN :
          client = NewClient("u1", "p1", Cwd, FALSE, udc, None, NoDt)
    /\ now = 0
    /\ call = ConstructCall("u1", "p1", Cwd, FALSE, FALSE)
    /\ result = Returned(None)

\* the exchange answers with a token, or without the access_token entry
ApiExchangeBodies == {b \in ExchangeBodies : b.has => b.access_token # ""}

NextApi ==
    \/ \E m \in ResourceOps : \E a \in MethodArgs(m) : ResourceCall(m, a)
    \/ \E st \in ExchangeStatuses, b \in ApiExchangeBodies : ExchangeResponse(st, b)
    \/ \E r \in GetAnswers : GetResponse(r[1], r[2])
    \/ Tick

SpecApi == InitApi /\ [][NextApi]_vars

\* ------------------------------------------------------------ endpoint_builder
\* endpoint_builder on its own: every keyword list of up to MaxKwargs
\* keywords, each None, a string, or a list of none, one or two strings.
UrlEndpoints == {route_endpoint, "/test"}
UrlValues ==
    {JNull, JStr("A1"), JStr("B 2"), JList(<<>>), JList(<<JStr("A1")>>),
     JList(<<JStr("A1"), JStr("B 2")>>)}
UrlKey(i) == "param" \o ToString(i)
UrlKwargs ==
    UNION {{[i \in 1..n |-> <<UrlKey(i), f[i]>>] : f \in [1..n -> UrlValues]} :
             n \in 0..MaxKwargs}

InitUrl ==
    /\ environ = [k \in EnvKeys |-> None]
    /\ tokfile = [p \in Paths |-> IF p = Cwd THEN NewTokenFile ELSE NoFile]
    /\ envfile = [p \in Paths |-> NoFile]
    /\ client = NewClient("u1", "p1", Cwd, FALSE, TRUE, None, NoDt)
    /\ now = 0
    /\ \E e \in UrlEndpoints, kw \in UrlKwargs :
          call = [IdleCall EXCEPT !.op = "input", !.endpoint = e, !.kwargs = kw]
    /\ result = NoResult

\* client.endpoint_builder(endpoint, **kwargs)
EndpointBuilderCall ==
    /\ call.op = "input"
    /\ client.alive
    /\ call' = [call EXCEPT !.op = "endpoint_builder",
                            !.param = BuildParam(call.kwargs),
                            !.url = EndpointBuilder(call.endpoint, call.kwargs)]
    /\ result' = Returned(None)
    /\ UNCHANGED <<environ, tokfile, envfile, client, now>>

NextUrl == EndpointBuilderCall

SpecUrl == InitUrl /\ [][NextUrl]_vars

\* ----------------------------------------------------- clients on two paths
\* One process that constructs clients on the store paths P1 and P2, each of
\* which may hold no store, an empty one, or one a client saved earlier.
InitPaths ==
    /\ environ = [k \in EnvKeys |-> None]
    /\ tokfile \in [Paths -> {NoFile, NewTokenFile, SavedFile("T1", 0),
                              SavedFile("T2", 1)}]
    /\ envfile = [p \in Paths |-> NoFile]
    /\ client = NoClient
    /\ now = 0
    /\ call = IdleCall
    /\ result = NoResult

NextPaths ==
    \/ \E d \in Paths, udc \in BOOLEAN : Construct("u1", "p1", d, FALSE, udc)
    \/ Tick

SpecPaths == InitPaths /\ [][NextPaths]_vars

\* ------------------------------------------------------------ the mapper alone
\* JSON for a field of type f, by mode: "min" carries the required fields
\* only, "full" every __init__ field, "shallow" every field of the object
\* itself and the required ones below it; "min+" and "full+" add a key that
\* names no field to every object at every level.
RECURSIVE Gen(_, _)
Gen(f, mode) ==
    CASE f.k = "str" -> JStr("s")
      [] f.k = "float" -> JFloat(1)
      [] f.k = "bool" -> JBool(TRUE)
      [] f.k = "list" -> JList(<<Gen(ElemType(f), mode)>>)
      [] f.k = "dc" ->
           LET fs == Schema[f.of]
               at(n) == CHOOSE i \in 1..Len(fs) : fs[i].n = n
               all == mode \in {"full", "full+", "shallow"}
               names == {fs[i].n : i \in {j \in 1..Len(fs) :
                            fs[j].init /\ (all \/ ~(fs[j].opt \/ fs[j].dflt))}}
               more == IF mode \in {"min+", "full+"} THEN {"zz_undeclared"} ELSE {}
           IN JDict([n \in names \cup more |->
                       IF n \in more THEN JStr("x")
                       ELSE Gen(fs[at(n)], IF mode = "shallow" THEN "min" ELSE mode)])

Shapes == DOMAIN Schema
ObjectOf(c, mode) == Gen(F("", "dc", c, FALSE, FALSE, TRUE), mode)
\* the object without one of its keys
Without(obj, n) == JDict([m \in DOMAIN obj.val \ {n} |-> obj.val[m]])
Modes == {"min", "full", "shallow", "min+", "full+"}

\* the JSON values handed to the mapper for shape c: the objects of every
\* mode, each of them with one key taken away, and arrays of them
MapObjects(c) ==
    {ObjectOf(c, m) : m \in Modes}
      \cup {Without(ObjectOf(c, m), n) : m \in {"min", "full"}, n \in FieldNames(c)}
MapInputs(c) ==
    MapObjects(c)
      \cup {JList(<<ObjectOf(c, "min"), o>>) : o \in MapObjects(c)}
      \cup {JList(<<o, ObjectOf(c, "full+")>>) : o \in MapObjects(c)}
      \cup {JList(<<>>)}

\* Routes by the carriers of their segments: up to MaxSegments segments per
\* mileage entry, a carrier being UP, another railroad, or absent; the
\* junction where segment i begins is Ji, or NORTH for the second or third.
Carriers == {JStr("UP"), JStr("BNSF"), JStr("CSX"), JNull}
CarrierSeqs == UNION {[1..n -> Carriers] : n \in 0..MaxSegments}
JunctionPlans == {"plain", "north2", "north3"}
JunctionAt(plan, i) ==
    IF (plan = "north2" /\ i = 2) \/ (plan = "north3" /\ i = 3) THEN "NORTH"
    ELSE "J" \o ToString(i)
CarrierLocationJson(j) ==
    JDict([location |-> ObjectOf("Location", "min"), junction_abbreviation |-> JStr(j)])
SegmentJson(c, j) ==
    JDict([beginning |-> CarrierLocationJson(j), end |-> CarrierLocationJson("END"),
           mileage |-> JFloat(1), carrier |-> c])
MileageJson(cs, plan) ==
    JDict([mileage |-> JFloat(1),
           route_segments |->
              JList([i \in 1..Len(cs) |-> SegmentJson(cs[i], JunctionAt(plan, i))])])
RouteJson(ms) ==
    JDict([origin |-> CarrierLocationJson("O"), destination |-> CarrierLocationJson("D"),
           route_mileages |-> JList(ms)])
RouteInputs ==
    {RouteJson(<<MileageJson(cs, p)>>) : cs \in CarrierSeqs, p \in JunctionPlans}
      \cup {RouteJson(<<MileageJson(cs, "plain"),
                        MileageJson(<<JStr("UP"), JStr("BNSF")>>, "plain")>>) :
               cs \in {q \in CarrierSeqs : Len(q) <= 2}}
      \cup {RouteJson(<<>>)}

InitMap ==
    /\ environ = [k \in EnvKeys |-> None]
    /\ tokfile = [p \in Paths |-> IF p = Cwd THEN NewTokenFile ELSE NoFile]
    /\ envfile = [p \in Paths |-> NoFile]
    /\ client = NewClient("u1", "p1", Cwd, FALSE, TRUE, None, NoDt)
    /\ now = 0
    /\ \E c \in Shapes :
          \E j \in MapInputs(c) \cup (IF c = "Route" THEN RouteInputs ELSE {}) :
             call = [IdleCall EXCEPT !.op = "input", !.dc = c, !.body = j]
    /\ result = NoResult

\* UPClient._json_to_dataclass(resp_json, dc)
MapJson ==
    /\ call.op = "input"
    /\ call' = [call EXCEPT !.op = "_json_to_dataclass"]
    /\ result' = LET r == JsonToDataclass(call.body, call.dc)
                 IN IF r.ok THEN ReturnedData(r.value) ELSE Raised(r.err, 0)
    /\ UNCHANGED <<environ, tokfile, envfile, client, now>>

\* "record.n = v" on the record a mapping returned: the __setattr__ that
\* @dataclass(frozen=True) generates raises FrozenInstanceError, a class
\* declared with frozen=False takes the assignment
AttrValues == {JStr("changed")}
SetAttr(n, v) ==
    /\ call.op = "_json_to_dataclass" /\ result.kind = "return"
    /\ result.data.tag = "dataclass"
    /\ n \in DOMAIN result.data.val
    /\ call' = [call EXCEPT !.op = "setattr", !.attr = n, !.before = result.data,
                            !.attr_exc = IF Frozen[result.data.cls]
                                         THEN "FrozenInstanceError" ELSE ""]
    /\ result' = [result EXCEPT !.data =
                     IF Frozen[result.data.cls] THEN @
                     ELSE Instance(@.cls, [@.val EXCEPT ![n] = v])]
    /\ UNCHANGED <<environ, tokfile, envfile, client, now>>

NextMap ==
    \/ MapJson
    \/ \E n \in UNION {FieldNames(c) : c \in Shapes}, v \in AttrValues : SetAttr(n, v)

SpecMap == InitMap /\ [][NextMap]_vars

\* ===================================================================== claims
TokenCalls == {"token", "get_new_token"}
\* every 200 answer of the call so far carried a non-empty token
OnlyTokenAnswers == \A i \in 1..Len(call.answers) : call.answers[i] \in Tokens
\* the held token at the start of the call was within its two hours
PreValid ==
    Truthy(call.pre_tk) /\ call.pre_age >= 0 /\ call.pre_age <= TokenLifetimeHours
PreStale == Truthy(call.pre_tk) /\ call.pre_age > TokenLifetimeHours
\* the stored timestamp entry of the directory the last call worked on
StoredTimestamp == tokfile[call.dir].kv["UP_TOKEN_TIMESTAMP"]

\* C1: a read of the token property while the held token is non-empty and
\* now <= issued_at + 2 hours returns the held value at once, with no POST and
\* no write to the token store.
C1_ValidReadIsCached ==
    (call.op = "token" /\ PreValid)
        => /\ call.pc = "idle"
           /\ result = Returned(call.pre_tk)
           /\ client.tk = call.pre_tk
           /\ call.posts = 0
           /\ call.writes = 0

\* a repeated read exactly two hours after the token was issued
C1_Witness ==
    /\ call.op = "token" /\ ~call.fresh
    /\ Truthy(call.pre_tk) /\ call.pre_age = TokenLifetimeHours
    /\ result.kind = "return" /\ call.posts = 0

\* C2: a read of the token property while the held token is older than two
\* hours sends exactly one exchange POST, whatever token the 200 answer
\* carries, and returns that token.
C2_StaleReadExchangesOnce ==
    (call.op = "token" /\ PreStale /\ Len(call.answers) >= 1
                       /\ call.answers[1] \in Tokens)
        => /\ call.pc = "idle"
           /\ call.posts = 1
           /\ result = Returned(call.answers[1])

\* the environment holds no token entries, or a token and timestamp that an
\* earlier load copied from a saved store
EnvironHoldsNothingOrSavedPair ==
    \/ environ["UP_TOKEN"] = None /\ environ["UP_TOKEN_TIMESTAMP"] = None
    \/ environ["UP_TOKEN"] \in Tokens /\ IsIsoFormat(environ["UP_TOKEN_TIMESTAMP"])

\* C3: a client constructed (without force_new_token) on a store that a token
\* save left holding token v and timestamp h holds v and h, whatever the
\* process environment held before (nothing, or an earlier token).
C3_SaveLoadRoundTrip ==
    \A v \in Tokens, h \in 0..MaxTime :
        (call.op = "construct" /\ ~call.force
                               /\ EnvironHoldsNothingOrSavedPair
                               /\ tokfile[call.dir] = SavedFile(v, h))
            => /\ client.alive
               /\ client.tk = v
               /\ client.tk_datetime = Dt(h)

\* C4: construction on a store whose timestamp entry is absent, empty or no
\* ISO instant completes without error and leaves the token unset.
C4_BadTimestampLoadsUnset ==
    (call.op = "construct"
        /\ \/ StoredTimestamp = NoKey
           \/ ~Truthy(DotenvValue(StoredTimestamp))
           \/ ~IsIsoFormat(DotenvValue(StoredTimestamp)))
        => /\ result.kind = "return"
           /\ client.alive
           /\ ~Truthy(client.tk)
           /\ ~IsDatetime(client.tk_datetime)

\* C5: in every state of a client the held token is non-empty exactly when
\* issued_at is a timestamp.
C5_TokenAndTimestampTogether ==
    client.alive => (Truthy(client.tk) <=> IsDatetime(client.tk_datetime))

\* C6: a client constructed with force_new_token holds no token, its first
\* token read sends an exchange, and when that read returns, the store holds
\* the returned token and the timestamp of its save.
C6_ForceNewToken ==
    /\ (call.op = "construct" /\ call.force /\ client.alive)
          => (client.tk = None /\ client.tk_datetime = NoDt)
    /\ (call.op = "token" /\ call.fresh /\ client.force_new_token)
          => call.posts >= 1
    /\ (call.op = "token" /\ call.fresh /\ client.force_new_token
            /\ call.pc = "idle" /\ result.kind = "return")
          => /\ result.value \in Tokens
             /\ result.value = call.answers[Len(call.answers)]
             /\ IsDatetime(client.tk_datetime)
             /\ tokfile[call.dir] = SavedFile(result.value, client.tk_datetime.h)

\* the store held the still valid T1 (load_dotenv copied it to the environment),
\* and the forced client's first read exchanged and stored T2
C6_Witness ==
    /\ call.op = "token" /\ call.fresh /\ client.force_new_token
    /\ environ["UP_TOKEN"] = "T1"
    /\ now <= TokenLifetimeHours
    /\ result = Returned("T2")
    /\ tokfile[call.dir].kv["UP_TOKEN"] = Quote("T2")

\* C7: a token read or get_new_token whose exchange POST is answered with a
\* status other than 200 fails with an error carrying that status after exactly
\* one POST.
C7_FailedExchangeOnePost ==
    (call.op \in TokenCalls /\ call.pc = "idle" /\ OnlyTokenAnswers
        /\ result.exc = "Exception: Token request failed")
        => /\ result.status # HttpOk
           /\ call.posts = 1

\* C8: a resource call whose GET is answered with a status outside 200..299
\* raises the "unexpected response" error carrying that status, hands back no
\* record, and has sent exactly one GET.
C8_NonSuccessGetRaises ==
    (call.op \in ResourceOps /\ call.pc = "idle" /\ call.status # 0
        /\ call.status \notin 200..299)
        => /\ result.kind = "raise"
           /\ result.exc = UnexpectedResponse
           /\ result.status = call.status
           /\ result.data = NoData
           /\ call.gets = 1

\* get_locations exchanged first, its GET was answered 404, and the call raised
C8_Witness ==
    /\ call.op = "get_locations" /\ call.pc = "idle"
    /\ call.posts = 1 /\ call.gets = 1 /\ call.status = 404
    /\ result = Raised(UnexpectedResponse, 404)

\* a JSON object that has the three required strings of a location and, where
\* it has the optional fields, values of their kinds
LocationObject(o) ==
    /\ o.tag = "dict"
    /\ \A n \in {"id", "city", "state_abbreviation"} :
          n \in DOMAIN o.val /\ o.val[n].tag = "str"
    /\ \A n \in DOMAIN o.val \cap {"country_abbreviation", "type_code", "splc", "postal_code"} :
          o.val[n].tag \in {"str", "null"}
    /\ \A n \in DOMAIN o.val \cap {"latitude", "longitude"} :
          o.val[n].tag \in {"float", "int", "null"}
\* the Location record of such an object: the nine declared fields, each with
\* the object's value or None
LocationOf(o) ==
    Instance("Location",
       [n \in {"id", "city", "state_abbreviation", "country_abbreviation",
               "type_code", "splc", "postal_code", "latitude", "longitude"} |->
          IF n \in DOMAIN o.val THEN o.val[n] ELSE JNull])

\* C9: get_locations after one exchange answered 200 with T1 and a GET answered
\* 200 with a list of location objects returns one Location record per object,
\* in order, when use_dataclasses is true, and the response JSON itself when
\* it is false.
C9_EndToEndLocations ==
    (call.op = "get_locations" /\ call.pc = "idle"
        /\ call.posts = 1 /\ call.answers = <<"T1">>
        /\ call.status = HttpOk /\ call.body.tag = "list"
        /\ \A i \in 1..Len(call.body.val) : LocationObject(call.body.val[i]))
        => /\ result.kind = "return"
           /\ call.gets = 1 /\ call.bearer = "T1"
           /\ IF client.use_dataclasses
              THEN result.data =
                      JList([i \in 1..Len(call.body.val) |-> LocationOf(call.body.val[i])])
              ELSE result.data = call.body

\* typed mode, two objects, the second with an undeclared field: two records
C9_Witness ==
    /\ call.op = "get_locations" /\ call.pc = "idle"
    /\ call.answers = <<"T1">> /\ call.status = HttpOk
    /\ call.body = JList(<<Loc1, Loc2>>)
    /\ client.use_dataclasses
    /\ result.kind = "return"
    /\ Len(result.data.val) = 2
    /\ result.data.val[1].val.id = JStr("LOC1")
    /\ result.data.val[2].cls = "Location"

\* ','.join of up to two strings, written out
CommaJoined(v) ==
    IF Len(v) = 0 THEN ""
    ELSE IF Len(v) = 1 THEN v[1].val
    ELSE v[1].val \o "," \o v[2].val
\* the entries of param under one key
EntriesOf(param, k) == {j \in 1..Len(param) : param[j][1] = k}

\* C11: the URL endpoint_builder returns is the endpoint followed by the
\* encoded entries of param, and param has no entry for a keyword whose value
\* is None and exactly one entry, the items joined by commas, for a keyword
\* whose value is a list.
C11_NoneDroppedListsJoined ==
    (call.op = "endpoint_builder")
        => /\ \A i \in 1..Len(call.kwargs) :
                LET k == call.kwargs[i][1]
                    v == call.kwargs[i][2]
                IN /\ v.tag = "null" => EntriesOf(call.param, k) = {}
                   /\ v.tag = "list" =>
                         /\ Cardinality(EntriesOf(call.param, k)) = 1
                         /\ \A j \in EntriesOf(call.param, k) :
                               call.param[j][2] = CommaJoined(v.val)
           /\ call.url = base_url \o call.endpoint
                            \o (IF call.kwargs = <<>> THEN ""
                                ELSE "?" \o UrlEncode(call.param))

\* a None keyword between a string and a two-item list: two entries, the list
\* as one value with its comma encoded
C11_Witness ==
    /\ call.op = "endpoint_builder" /\ call.endpoint = "/test"
    /\ call.kwargs = <<<<"param1", JStr("A1")>>, <<"param2", JNull>>,
                       <<"param3", JList(<<JStr("A1"), JStr("B 2")>>)>>>>
    /\ call.url = "https://customer.api.up.com/test?param1=A1&param3=A1%2CB+2"

\* C10: construction with an explicit userid and password, both non-empty,
\* keeps exactly that pair as the credentials and does not read the credential
\* source (the .env file, UP_ACCESSID, UP_SECRET_KEY).
C10_ExplicitCredentialsVerbatim ==
    (call.op = "construct" /\ Truthy(call.userid) /\ Truthy(call.password))
        => /\ client.alive
           /\ client.uid = call.userid
           /\ client.pw = call.password
           /\ ~call.credread

\* an explicit pair is kept although the .env file and the environment both
\* hold other credentials
C10_Witness ==
    /\ call.op = "construct" /\ call.userid = "u1" /\ call.password = "p1"
    /\ client.alive /\ client.uid = "u1" /\ client.pw = "p1"
    /\ envfile[call.dir] = CredFile("u9", "p9")
    /\ environ["UP_ACCESSID"] = "u8"

\* the fixed path of the resource each method belongs to
OwnPath ==
    [get_routes |-> "/services/v2/routes", get_route_by_id |-> "/services/v2/routes",
     get_locations |-> "/services/v2/locations",
     get_location_by_id |-> "/services/v2/locations",
     get_shipments |-> "/services/v2/shipments",
     get_shipment_by_id |-> "/services/v2/shipments",
     get_case_by_id |-> "/services/v2/cases", get_cases |-> "/services/v2/cases",
     get_waybill_by_id |-> "/services/v2/waybills",
     get_waybills |-> "/services/v2/waybills",
     get_equipment_by_id |-> "/services/v2/equipment"]
\* C12: the GET of every resource method goes to the fixed path of the
\* method's own resource: the URL is the base URL, that path, and then the id
\* or the query; get_waybills requests /services/v2/waybills.
C12_OwnResourcePath ==
    (call.op \in ResourceOps /\ call.gets = 1)
        => /\ call.resource = OwnPath[call.op]
           /\ call.url = base_url \o OwnPath[call.op]
                            \o (IF call.kwargs = <<>> THEN "/A1"
                                ELSE "?" \o UrlEncode(call.param))

\* C13: a client constructed on the store path P2 holds the token and the
\* issued-at instant of the store at P2 (nothing, for a store that holds
\* none), whatever clients were constructed on P1 before it in the process.
C13_LoadsOnlyOwnStore ==
    (call.op = "construct" /\ call.dir = "P2" /\ client.alive)
        => /\ \A v \in Tokens, h \in 0..MaxTime :
                 tokfile["P2"] = SavedFile(v, h)
                    => client.tk = v /\ client.tk_datetime = Dt(h)
           /\ tokfile["P2"] = NewTokenFile
                 => client.tk = None /\ client.tk_datetime = NoDt

\* the fields a shape declares required, and those it declares optional
Required(c) ==
    {Schema[c][i].n : i \in {j \in 1..Len(Schema[c]) :
        Schema[c][j].init /\ ~Schema[c][j].opt /\ ~Schema[c][j].dflt}}
Optional(c) ==
    {Schema[c][i].n : i \in {j \in 1..Len(Schema[c]) : Schema[c][j].opt}}
\* a mapped value on which nothing but declared fields can be reached: every
\* record in it has the fields of its shape and no others, and no JSON object
\* is left in it
RECURSIVE OnlyDeclared(_)
OnlyDeclared(x) ==
    CASE x.tag = "dataclass" ->
           /\ DOMAIN x.val = FieldNames(x.cls)
           /\ \A n \in DOMAIN x.val : OnlyDeclared(x.val[n])
      [] x.tag = "list" -> \A i \in 1..Len(x.val) : OnlyDeclared(x.val[i])
      [] x.tag = "dict" -> FALSE
      [] OTHER -> TRUE
\* objects of shape c with the required fields, or with every field, and keys
\* that name no field at every level
WithUndeclared(c) == {ObjectOf(c, "min+"), ObjectOf(c, "full+")}

\* C14: mapping an object that carries the required fields of the shape and
\* undeclared fields besides, or an array of such objects, succeeds, and on
\* the records only declared fields can be reached.
C14_UndeclaredFieldsDropped ==
    (call.op = "_json_to_dataclass"
        /\ \/ call.body \in WithUndeclared(call.dc)
           \/ /\ call.body.tag = "list" /\ call.body.val # <<>>
              /\ \A i \in 1..Len(call.body.val) :
                    call.body.val[i] \in WithUndeclared(call.dc))
        => /\ result.kind = "return"
           /\ OnlyDeclared(result.data)
           /\ call.body.tag = "dict" => result.data.cls = call.dc
           /\ call.body.tag = "list" =>
                 /\ Len(result.data.val) = Len(call.body.val)
                 /\ \A i \in 1..Len(result.data.val) :
                       result.data.val[i].cls = call.dc

\* a Route with every field and undeclared keys at every level became a Route
\* whose origin is a CarrierLocation with its three fields
C14_Witness ==
    /\ call.op = "_json_to_dataclass" /\ call.dc = "Route"
    /\ call.body = ObjectOf("Route", "full+")
    /\ "zz_undeclared" \in DOMAIN call.body.val
    /\ "zz_undeclared" \in DOMAIN call.body.val.origin.val
    /\ result.kind = "return"
    /\ DOMAIN result.data.val.origin.val = {"location", "carrier", "junction_abbreviation"}

\* a JSON object that lacks a required field of shape c
LacksRequired(c, o) == o.tag = "dict" /\ Required(c) \ DOMAIN o.val # {}

\* C15: mapping an object that lacks a required field of the shape raises
\* MissingValueError and returns no record; mapping an array in which one
\* object lacks a required field raises it too and returns no records.
C15_MissingRequiredRaises ==
    (call.op = "_json_to_dataclass"
        /\ \/ LacksRequired(call.dc, call.body)
           \/ /\ call.body.tag = "list"
              /\ \E i \in 1..Len(call.body.val) :
                    LacksRequired(call.dc, call.body.val[i]))
        => /\ result.kind = "raise"
           /\ result.exc = "MissingValueError"
           /\ result.data = NoData

\* an array of two locations, the second without its city: no records
C15_Witness ==
    /\ call.op = "_json_to_dataclass" /\ call.dc = "Location"
    /\ call.body = JList(<<ObjectOf("Location", "min"),
                           Without(ObjectOf("Location", "min"), "city")>>)
    /\ result = Raised("MissingValueError", 0)

\* objects of shape c in which optional fields are absent: at every level, at
\* the levels below the object, or one field of the object itself
OptionalAbsent(c) ==
    {ObjectOf(c, "min"), ObjectOf(c, "shallow")}
      \cup {Without(ObjectOf(c, "full"), n) : n \in Optional(c)}

\* C16: mapping an object in which optional fields are absent, at any level,
\* raises no error and sets each absent optional field of the record to None;
\* so does a Route whose route_mileages entry has no route_segments.
C16_AbsentOptionalIsNone ==
    (call.op = "_json_to_dataclass" /\ call.body \in OptionalAbsent(call.dc))
        => /\ result.kind = "return"
           /\ \A n \in Optional(call.dc) \ DOMAIN call.body.val :
                 result.data.val[n] = JNull

\* how a carrier or a junction reads in the string
Label(x) == IF x.tag = "null" THEN "None" ELSE x.val
\* the scan of section 4.5 of the specification over the segments after the
\* first: at a change of carrier the string grows by "-junction-carrier" when
\* the carrier left is UP, and the current carrier becomes the new one
RECURSIVE ScanRest(_, _, _)
ScanRest(segs, current, acc) ==
    IF segs = <<>> THEN acc
    ELSE LET c == Head(segs).val.carrier
             j == Head(segs).val.beginning.val.junction_abbreviation
         IN IF c = current THEN ScanRest(Tail(segs), current, acc)
            ELSE ScanRest(Tail(segs), c,
                          IF current = JStr("UP")
                          THEN acc \o "-" \o Label(j) \o "-" \o Label(c)
                          ELSE acc)
\* the accumulator is set once, from the first segment
SingleScan(segs) ==
    IF segs = <<>> THEN ""
    ELSE ScanRest(Tail(segs), segs[1].val.carrier, Label(segs[1].val.carrier))
\* a Route JSON object whose mileage entries all list their segments
HasSegmentLists(o) ==
    /\ o.tag = "dict" /\ "route_mileages" \in DOMAIN o.val
    /\ o.val.route_mileages.tag = "list"
    /\ \A i \in 1..Len(o.val.route_mileages.val) :
          /\ "route_segments" \in DOMAIN o.val.route_mileages.val[i].val
          /\ o.val.route_mileages.val[i].val.route_segments.tag = "list"
          /\ \A k \in 1..Len(o.val.route_mileages.val[i].val.route_segments.val) :
                "carrier" \in
                   DOMAIN o.val.route_mileages.val[i].val.route_segments.val[k].val

\* C17: route_str of a mapped Route holds one string per mileage entry, in
\* mileage order, each the single scan of that entry's segments: set once from
\* the first segment's carrier, extended only at a change from UP, and empty
\* for an entry without segments.
C17_RouteStrIsSingleScan ==
    (/\ call.op = "_json_to_dataclass" /\ call.dc = "Route"
     /\ HasSegmentLists(call.body) /\ result.kind = "return")
        => result.data.val.route_str =
              JList([i \in 1..Len(call.body.val.route_mileages.val) |->
                       JStr(SingleScan(
                          call.body.val.route_mileages.val[i].val.route_segments.val))])

\* the carriers of the interchange scenario, and a Route JSON object with one
\* mileage entry of these carriers where segment k begins at junction NORTH
ScenarioCarriers == <<JStr("UP"), JStr("UP"), JStr("BNSF"), JStr("BNSF")>>
Scenario(o, k) ==
    /\ HasSegmentLists(o) /\ Len(o.val.route_mileages.val) = 1
    /\ LET segs == o.val.route_mileages.val[1].val.route_segments.val
       IN /\ [i \in 1..Len(segs) |-> segs[i].val.carrier] = ScenarioCarriers
          /\ segs[k].val.beginning.val.junction_abbreviation = JStr("NORTH")
MappedRoute == call.op = "_json_to_dataclass" /\ call.dc = "Route"
InterchangeAtNorth ==
    /\ result.kind = "return"
    /\ result.data.val.route_str = JList(<<JStr("UP-NORTH-BNSF")>>)

\* C18 as stated: with carriers [UP, UP, BNSF, BNSF] and the SECOND segment
\* beginning at junction NORTH, the interchange string is "UP-NORTH-BNSF".
C18_SecondSegmentJunction ==
    (MappedRoute /\ Scenario(call.body, 2)) => InterchangeAtNorth

\* C18 amended: with carriers [UP, UP, BNSF, BNSF] and the THIRD segment (the
\* first BNSF segment) beginning at junction NORTH, the interchange string is
\* "UP-NORTH-BNSF".
C18_ThirdSegmentJunction ==
    (MappedRoute /\ Scenario(call.body, 3)) => InterchangeAtNorth

C18_Witness ==
    MappedRoute /\ Scenario(call.body, 3) /\ InterchangeAtNorth

\* C19: a typed record is immutable once created: every assignment to a field
\* of a mapped record, route_str of a Route included, is rejected and leaves
\* the record as it was.
C19_RecordsImmutable ==
    call.op = "setattr" => (call.attr_exc # "" /\ result.data = call.before)

\* C20: a read of the token property whose exchange POSTs are all answered
\* with status 200 and an access_token string returns after finitely many
\* exchanges.  Every such answer must then bring the read forward: were the
\* read, after the step that takes an answer, waiting on a further POST while
\* holding the token and issued_at it held before the answer, the same answer
\* would put it there again, without end.
C20_TokenReadReturns ==
    [][(/\ call.op = "token" /\ call.pc = "post" /\ call'.pc = "post"
        /\ Len(call'.answers) = Len(call.answers) + 1
        /\ call'.posts = call.posts + 1)
         => ~(/\ client'.tk = client.tk
              /\ client'.tk_datetime = client.tk_datetime
              /\ tokfile' = tokfile)
      ]_<<environ, tokfile, envfile, client, now, call, result>>

\* the errors of a failed exchange: a status other than 200, or a 200 answer
\* without an access_token field
ExchangeErrors == {"Exception: Token request failed", "KeyError"}

\* C21: a failed exchange (a status other than 200, or a 200 answer without
\* access_token) leaves the token state unchanged: the held token, the held
\* issued_at and both entries of the token store are after the failing
\* exchange what they were when its POST was sent.
C21_FailedExchangeChangesNothing ==
    [][(call.pc = "post" /\ result'.kind = "raise" /\ result'.exc \in ExchangeErrors)
         => /\ client'.tk = client.tk
            /\ client'.tk_datetime = client.tk_datetime
            /\ tokfile'[call.dir].kv["UP_TOKEN"] = tokfile[call.dir].kv["UP_TOKEN"]
            /\ tokfile'[call.dir].kv["UP_TOKEN_TIMESTAMP"] =
                  tokfile[call.dir].kv["UP_TOKEN_TIMESTAMP"]
      ]_<<environ, tokfile, envfile, client, now, call, result>>

\* a read of a stale token failed on its only exchange and the token, its
\* issued_at and its store entry are still there
C21_Witness ==
    /\ call.op = "token" /\ call.pc = "idle" /\ call.posts = 1
    /\ result.kind = "raise" /\ result.exc \in ExchangeErrors
    /\ PreStale /\ client.tk = call.pre_tk
    /\ IsDatetime(client.tk_datetime)
    /\ tokfile[call.dir].kv["UP_TOKEN"] = Quote(call.pre_tk)

\* the resource call began with no token held, or with a stale one
NeedsExchange == ~Truthy(call.pre_tk) \/ call.pre_age > TokenLifetimeHours
\* the token the read in _call_api returned: the answer of the last exchange,
\* or the held token when no exchange was needed
TokenReadValue ==
    IF call.posts = 0 THEN call.pre_tk ELSE call.answers[Len(call.answers)]

\* C22: within one resource call, every exchange POST the call needs (no token
\* held, or a stale one) is answered before the GET is sent, the GET carries
\* the token the token read returned, and a call whose exchange failed sends
\* no GET.
C22_ExchangeBeforeGet ==
    call.op \in ResourceOps =>
        /\ call.pc = "post" => call.gets = 0
        /\ call.gets >= 1 =>
              /\ call.gets = 1
              /\ NeedsExchange => call.posts >= 1
              /\ Len(call.answers) = call.posts
              /\ Truthy(call.bearer)
              /\ call.bearer = TokenReadValue
              /\ call.bearer = client.tk
        /\ (call.pc = "idle" /\ result.exc \in ExchangeErrors) =>
              (call.gets = 0 /\ call.bearer = None /\ call.status = 0)

\* a resource call that began with a stale token has exchanged it and sent
\* its GET with the new one
C22_Witness ==
    /\ call.op \in ResourceOps /\ call.gets = 1 /\ call.posts >= 1
    /\ Truthy(call.pre_tk) /\ call.pre_age > TokenLifetimeHours
    /\ call.bearer # call.pre_tk /\ call.bearer = client.tk
\* a resource call whose exchange failed stopped without a GET
C22_WitnessFailed ==
    /\ call.op \in ResourceOps /\ call.pc = "idle" /\ call.posts >= 1
    /\ result.exc \in ExchangeErrors /\ call.gets = 0
====
